---- MODULE Spec2Model ----
(***************************************************************************)
(* A model of SimComponents.py: the request-flow components (generator,    *)
(* sink, synchronous forwarder, completer, random and priority-queue       *)
(* branchers) running as SimPy processes on one event timeline.            *)
(*                                                                         *)
(* One step of the model is one step of the SimPy environment: the first   *)
(* entry of the timeline is popped, the clock moves to its time, and the   *)
(* process waiting on it runs up to its next yield.  Everything a process  *)
(* does between two yields, calls of put() down the topology included, is  *)
(* part of that one step.                                                  *)
(*                                                                         *)
(* Virtual times, sizes and delay factors are floats in the program and    *)
(* naturals here.                                                          *)
(***************************************************************************)
EXTENDS Integers, Sequences, FiniteSets, TLC

\* ------------------------------------------------------------------ bounds

\* env.run(until=Until): no event at a time >= Until is processed.
Until == 6
\* RequestGenerator.finish of the generators that have one (1000 .. 5000 in the scripts).
Finish == 3
\* The number of outputs of a brancher (n_completers = 15 in the scripts).
NOuts == 2

\* finish=float("inf"), the default: larger than any time the clock reaches.
Infinity == 1000
\* initial_delay (50 in the scripts).
InitialDelay == 1
\* completers[0].extra_delay_factor = 2.5 in the scripts, a slower server.
SlowFactor == 2
\* extra_delay_factor as the constructor sets it (1.0).
DefaultFactor == 1

\* What adist() and sdist() may return (random.expovariate: positive).
Intervals == {1, 2}
Sizes == {1, 2}

\* SimPy's event priorities.
URGENT == 0
NORMAL == 1

\* ------------------------------------------------------------- topologies

Gens == {"one", "two"}

\* The things a request can be put to.
Sink == <<"sink", 0>>
Completer(c) == <<"completer", c>>
Forwarder == <<"forwarder", 0>>
PQ(b) == <<"pq", b>>
Rand(b) == <<"rand", b>>

NoTarget == <<"none", 0>>
AllCompleters == [i \in 0..(NOuts - 1) |-> Completer(i)]
Factors(n) == [c \in 0..(n - 1) |-> IF c = 0 /\ n > 1 THEN SlowFactor ELSE DefaultFactor]

\* basic.py: one generator straight into a sink that selects its source.
Basic ==
    [name |-> "basic", gens |-> {"one"},
     gen_out |-> [g \in Gens |-> Sink], finish |-> Finish,
     N |-> 1, fwd_out |-> NoTarget, n_completers |-> 0,
     pq_outs |-> <<>>, rnd_outs |-> <<>>,
     selector |-> "one", rec_waits |-> TRUE, rec_arrivals |-> TRUE,
     absolute_arrivals |-> FALSE]

\* two_layer.py: generator -> SynchronousForwarder(N) -> completer -> sink.
\* The script leaves the generator's finish at its default and has N = 1.
TwoLayer(n, finish) ==
    [name |-> "two_layer", gens |-> {"one"},
     gen_out |-> [g \in Gens |-> Forwarder], finish |-> finish,
     N |-> n, fwd_out |-> Completer(0), n_completers |-> 1,
     pq_outs |-> <<>>, rnd_outs |-> <<>>,
     selector |-> "one", rec_waits |-> TRUE, rec_arrivals |-> TRUE,
     absolute_arrivals |-> FALSE]

\* multiple_completers_pqueue.py: generator -> PQueueBrancher -> completers -> sink.
PQueue ==
    [name |-> "pqueue", gens |-> {"one"},
     gen_out |-> [g \in Gens |-> PQ(1)], finish |-> Finish,
     N |-> 1, fwd_out |-> NoTarget, n_completers |-> NOuts,
     pq_outs |-> <<AllCompleters>>, rnd_outs |-> <<>>,
     selector |-> "one", rec_waits |-> TRUE, rec_arrivals |-> TRUE,
     absolute_arrivals |-> TRUE]

\* Two generators straight into one sink that selects "one": basic.py's
\* wiring with the two sources of the random script.
Filtered ==
    [name |-> "filtered", gens |-> {"one", "two"},
     gen_out |-> [g \in Gens |-> Sink], finish |-> Finish,
     N |-> 1, fwd_out |-> NoTarget, n_completers |-> 0,
     pq_outs |-> <<>>, rnd_outs |-> <<>>,
     selector |-> "one", rec_waits |-> TRUE, rec_arrivals |-> TRUE,
     absolute_arrivals |-> FALSE]

\* multiple_generators_multiple_completers_random.py: two generators, each
\* through its own RandomBrancher, into shared completers; the sink selects
\* "one".  Its generators stop one time unit before the others, which keeps
\* the product of their draws and the branchers' choices small.
Random ==
    [name |-> "random", gens |-> {"one", "two"},
     gen_out |-> [g \in Gens |-> IF g = "one" THEN Rand(1) ELSE Rand(2)],
     finish |-> Finish - 1,
     N |-> 1, fwd_out |-> NoTarget, n_completers |-> NOuts,
     pq_outs |-> <<>>, rnd_outs |-> <<AllCompleters, AllCompleters>>,
     selector |-> "one", rec_waits |-> TRUE, rec_arrivals |-> TRUE,
     absolute_arrivals |-> FALSE]

\* many_generators_many_branchers.py: each generator through its own
\* PQueueBrancher into shared completers; the sink has no selector.
Many ==
    [name |-> "many", gens |-> {"one", "two"},
     gen_out |-> [g \in Gens |-> IF g = "one" THEN PQ(1) ELSE PQ(2)],
     finish |-> Finish,
     N |-> 1, fwd_out |-> NoTarget, n_completers |-> NOuts,
     pq_outs |-> <<AllCompleters, AllCompleters>>, rnd_outs |-> <<>>,
     selector |-> "", rec_waits |-> FALSE, rec_arrivals |-> TRUE,
     absolute_arrivals |-> FALSE]

\* Generator -> PQueueBrancher -> (forwarder -> completer 0 | completer 1 ..) -> sink:
\* a brancher in front of a forwarder, as the data flow Generator ->
\* (Brancher | Forwarder)* -> Completer -> Sink allows.
Chain ==
    [name |-> "chain", gens |-> {"one"},
     gen_out |-> [g \in Gens |-> PQ(1)], finish |-> Finish,
     N |-> 1, fwd_out |-> Completer(0), n_completers |-> NOuts,
     pq_outs |-> <<[i \in 0..(NOuts - 1) |-> IF i = 0 THEN Forwarder ELSE Completer(i)]>>,
     rnd_outs |-> <<>>,
     selector |-> "one", rec_waits |-> TRUE, rec_arrivals |-> FALSE,
     absolute_arrivals |-> FALSE]

\* A generator into a RandomBrancher, or a PQueueBrancher, built with
\* outputs = [].
EmptyRandom ==
    [Basic EXCEPT !.name = "empty_random", !.gen_out = [g \in Gens |-> Rand(1)],
                  !.rnd_outs = <<<<>>>>]
EmptyPQueue ==
    [Basic EXCEPT !.name = "empty_pqueue", !.gen_out = [g \in Gens |-> PQ(1)],
                  !.pq_outs = <<<<>>>>]
EmptyTopologies == {EmptyRandom, EmptyPQueue}

Topologies ==
    {Basic, Filtered, TwoLayer(1, Infinity), TwoLayer(1, Finish), TwoLayer(2, Finish),
     PQueue, Random, Many, Chain}

\* ------------------------------------------------------------------ state

VARIABLES
    cfg,    \* the topology: the out members, the constructor arguments
    now,    \* env.now
    queue,  \* the environment's timeline, in the order it will be popped
    gen,    \* gen[g]: a RequestGenerator's fields and the place of its run()
    comp,   \* comp[c]: a RequestCompleter's fields, its store and its run()
    fwd,    \* the SynchronousForwarder's fields and its slots resource
    fproc,  \* fproc[r]: the place of the putAndWait process of request r
    pq,     \* pq[b]: a PQueueBrancher's fields
    rnd,    \* rnd[b]: a RandomBrancher's fields
    sink,   \* the RequestSink's fields
    reqs,   \* reqs[r]: the fields of every Request created so far
    hist    \* history: what was put where, in order (not program state)

vars == <<cfg, now, queue, gen, comp, fwd, fproc, pq, rnd, sink, reqs, hist>>

\* The state as one value, so that a chain of calls (put -> put -> put) is a
\* composition of functions from state to state.
Cur ==
    [cfg |-> cfg, now |-> now, queue |-> queue, gen |-> gen, comp |-> comp,
     fwd |-> fwd, fproc |-> fproc, pq |-> pq, rnd |-> rnd, sink |-> sink,
     reqs |-> reqs, hist |-> hist]

Commit(s) ==
    /\ cfg' = s.cfg
    /\ now' = s.now
    /\ queue' = s.queue
    /\ gen' = s.gen
    /\ comp' = s.comp
    /\ fwd' = s.fwd
    /\ fproc' = s.fproc
    /\ pq' = s.pq
    /\ rnd' = s.rnd
    /\ sink' = s.sink
    /\ reqs' = s.reqs
    /\ hist' = s.hist

\* Python's None for a timestamp, and a timestamp that is set.
None == <<>>
Some(t) == <<t>>

\* A request is named by its source and its id.
NoReq == <<"", 0>>
Created == DOMAIN reqs

\* --------------------------------------------------- the SimPy environment

\* An entry of the timeline: the event and what resumes when it is processed.
Event(kind, g, c, r) ==
    [time |-> 0, prio |-> NORMAL, kind |-> kind, g |-> g, c |-> c, r |-> r]

\* Environment.schedule: heappush of (now + delay, priority, eid, event).  The
\* timeline is kept as the sequence the heap will pop: ordered by time, then
\* priority, then insertion.
Schedule(s, ev, prio, delay) ==
    LET e == [ev EXCEPT !.time = s.now + delay, !.prio = prio]
        q == s.queue
        NotAfter(x) == x.time < e.time \/ (x.time = e.time /\ x.prio <= e.prio)
        k == Cardinality({i \in 1..Len(q) : NotAfter(q[i])})
    IN  [s EXCEPT !.queue = SubSeq(q, 1, k) \o <<e>> \o SubSeq(q, k + 1, Len(q))]

\* Environment.step: pop the first entry and move the clock to its time.
Pop(s) ==
    [s EXCEPT !.now = Head(s.queue).time, !.queue = Tail(s.queue)]

\* Process._resume when the generator function raises: the process's own
\* event fails with the exception and is scheduled (normal priority, no
\* delay).  When Environment.step pops a failed event that nothing has
\* defused it re-raises the exception out of env.run, and the simulation is
\* over: no step of the model takes an entry of kind "failed", so the timeline
\* stops with it at its head.
ProcessFails(s, g, c, r) == Schedule(s, Event("failed", g, c, r), NORMAL, 0)

\* Environment.run(until): the timeline is not empty and its first entry is
\* due before the until event.
Ready(kind) ==
    /\ queue # <<>>
    /\ Head(queue).time < Until
    /\ Head(queue).kind = kind

\* ------------------------------------------------------------- RequestSink

\* The counters moved out of the if: every request put is counted.
SinkPut_CountsAll(s, r) ==
    LET pkt == s.reqs[r]
        k == s.sink
        selected == s.cfg.selector = "" \/ pkt.src = s.cfg.selector
        w == IF selected /\ s.cfg.rec_waits
             THEN Append(k.waits, s.now - pkt.time) ELSE k.waits
        a == IF ~selected \/ ~s.cfg.rec_arrivals THEN k.arrivals
             ELSE IF s.cfg.absolute_arrivals THEN Append(k.arrivals, s.now)
             ELSE Append(k.arrivals, s.now - k.last_arrival)
        la == IF selected /\ s.cfg.rec_arrivals THEN s.now ELSE k.last_arrival
    IN  [s EXCEPT !.hist.sink_log = Append(@, [r |-> r, at |-> s.now]),
                  !.sink = [waits |-> w, arrivals |-> a, last_arrival |-> la,
                            requests_rec |-> k.requests_rec + 1,
                            bytes_rec |-> k.bytes_rec + pkt.size]]

\* RequestSink.put
SinkPut(s, r) ==
    LET pkt == s.reqs[r]
        k == s.sink
        selected == s.cfg.selector = "" \/ pkt.src = s.cfg.selector
        w == IF s.cfg.rec_waits THEN Append(k.waits, s.now - pkt.time) ELSE k.waits
        a == IF ~s.cfg.rec_arrivals THEN k.arrivals
             ELSE IF s.cfg.absolute_arrivals THEN Append(k.arrivals, s.now)
             ELSE Append(k.arrivals, s.now - k.last_arrival)
        la == IF s.cfg.rec_arrivals THEN s.now ELSE k.last_arrival
        logged == [s EXCEPT !.hist.sink_log = Append(@, [r |-> r, at |-> s.now])]
    IN  IF selected
        THEN [logged EXCEPT !.sink =
                 [waits |-> w, arrivals |-> a, last_arrival |-> la,
                  requests_rec |-> k.requests_rec + 1,
                  bytes_rec |-> k.bytes_rec + pkt.size]]
        ELSE logged

\* -------------------------------------------------------- RequestCompleter

\* A store that hands out its newest item (items.pop() for items.pop(0)).
TriggerGet_Lifo(s, c) ==
    LET k == s.comp[c]
    IN  IF k.getq /\ k.items # <<>>
        THEN Schedule([s EXCEPT !.comp[c].items = SubSeq(k.items, 1, Len(k.items) - 1),
                                !.comp[c].getq = FALSE],
                      Event("get", "", c, k.items[Len(k.items)]), NORMAL, 0)
        ELSE s

\* A store that hands out its first item and keeps it (items[0] for items.pop(0)).
TriggerGet_Peek(s, c) ==
    LET k == s.comp[c]
    IN  IF k.getq /\ k.items # <<>>
        THEN Schedule([s EXCEPT !.comp[c].getq = FALSE],
                      Event("get", "", c, Head(k.items)), NORMAL, 0)
        ELSE s

\* Store._trigger_get: the waiting get event, if there is one and the store
\* holds an item, succeeds with the first item (items.pop(0)) and is scheduled.
TriggerGet(s, c) ==
    LET k == s.comp[c]
    IN  IF k.getq /\ k.items # <<>>
        THEN Schedule([s EXCEPT !.comp[c].items = Tail(k.items), !.comp[c].getq = FALSE],
                      Event("get", "", c, Head(k.items)), NORMAL, 0)
        ELSE s

\* self.store.get(): the get event joins the store's get queue, which is
\* triggered at once.
StoreGet(s, c) == TriggerGet([s EXCEPT !.comp[c].getq = TRUE], c)

\* self.store.put(req): the store is unbounded, so the item is appended and
\* the put event succeeds; the get queue is triggered when that event is
\* processed (PutProcessed), not here.
StorePut(s, c, r) ==
    Schedule([s EXCEPT !.comp[c].items = Append(@, r)], Event("put", "", c, r), NORMAL, 0)

\* RequestCompleter.put
CompleterPut(s, c, r) ==
    LET k == s.comp[c]
        s1 == [s EXCEPT !.comp[c].requests_rec = @ + 1,
                        !.comp[c].hiwat = IF @ < Len(k.items) THEN Len(k.items) ELSE @,
                        !.hist.put_log[c] = Append(@, r),
                        !.hist.put_at = (r :> s.now) @@ @,
                        !.hist.max_depth[c] =
                            IF @ < Len(k.items) + 1 THEN Len(k.items) + 1 ELSE @]
    IN  StorePut(s1, c, r)

\* completers[i].out = sink in every script.
CompleterOut(c) == Sink

\* The names bound at the top level of SimComponents.py (imports and classes).
ModuleGlobals ==
    {"simpy", "random", "functools", "heappush", "heappop",
     "Request", "RequestGenerator", "RequestSink", "SynchronousForwarder",
     "RequestCompleter", "RandomBrancher", "PQueueBrancher"}

\* RequestCompleter.inflight: len(self.store.items) + busy.  busy is a bare
\* name, not self.busy: Python looks it up among the module's globals (and the
\* builtins, which have none of that name) and raises NameError when it is
\* not there.
CompleterInflight(s, c) ==
    IF "busy" \in ModuleGlobals
    THEN [raised |-> "", value |-> Len(s.comp[c].items)]
    ELSE [raised |-> "NameError", value |-> 0]

\* ---------------------------------------------------- SynchronousForwarder

\* A resource that hands out a slot whatever the number of users.
TriggerPut_NoCapacity(s) ==
    LET f == s.fwd
    IN  IF f.put_queue # <<>>
        THEN Schedule([s EXCEPT !.fwd.users = Append(@, Head(f.put_queue)),
                                !.fwd.put_queue = Tail(@)],
                      Event("slot", "", 0, Head(f.put_queue)), NORMAL, 0)
        ELSE s

\* Resource._trigger_put: the first request of the put queue gets a slot if
\* fewer than capacity users hold one (Resource._do_put), and is scheduled.
TriggerPut(s) ==
    LET f == s.fwd
    IN  IF f.put_queue # <<>> /\ Len(f.users) < s.cfg.N
        THEN Schedule([s EXCEPT !.fwd.users = Append(@, Head(f.put_queue)),
                                !.fwd.put_queue = Tail(@)],
                      Event("slot", "", 0, Head(f.put_queue)), NORMAL, 0)
        ELSE s

\* self.slots.request()
SlotsRequest(s, r) == TriggerPut([s EXCEPT !.fwd.put_queue = Append(@, r)])

\* self.slots.release(slot): the user leaves (Resource._do_get) and the
\* release event is scheduled; processing it triggers the put queue.
SlotsRelease(s, r) ==
    Schedule([s EXCEPT !.fwd.users = SelectSeq(@, LAMBDA u : u # r)],
             Event("release", "", 0, r), NORMAL, 0)

\* target.put(req), defined below once every put is.
RECURSIVE Put(_, _, _, _)

\* putAndWait once the slot is granted: forward the request downstream and
\* wait for its completion event.
ForwarderForward(s, r) ==
    LET s1 == Put([s EXCEPT !.hist.fwd_log = Append(@, r)], s.cfg.fwd_out, r, 0)
    IN  [s1 EXCEPT !.fproc[r] = "event",
                   !.reqs[r].completion_event.callbacks = Append(@, r)]

\* A put that takes a slot and forwards in the caller's step, without asking
\* the resource and without starting a process.
ForwarderPut_Direct(s, r) ==
    ForwarderForward([s EXCEPT !.fwd.requests_rec = @ + 1,
                               !.fwd.users = Append(@, r),
                               !.fproc = (r :> "start") @@ @], r)

\* SynchronousForwarder.put: count the request and start a putAndWait process
\* for it; its Initialize event is urgent.  put returns at once.
ForwarderPut(s, r) ==
    Schedule([s EXCEPT !.fwd.requests_rec = @ + 1,
                       !.fproc = (r :> "start") @@ @],
             Event("init_fwd", "", 0, r), URGENT, 0)

\* --------------------------------------------------------------- branchers

\* Python's comparison of the tuples (inflight, index).
TupleLess(a, b) == a[1] < b[1] \/ (a[1] = b[1] /\ a[2] < b[2])

\* heapq._siftdown(heap, startpos, pos) with newitem held aside; positions
\* are Python's (heap[p] is h[p + 1]).
RECURSIVE SiftDown(_, _, _, _)
SiftDown(h, startpos, pos, newitem) ==
    IF pos > startpos /\ TupleLess(newitem, h[((pos - 1) \div 2) + 1])
    THEN SiftDown([h EXCEPT ![pos + 1] = h[((pos - 1) \div 2) + 1]],
                  startpos, (pos - 1) \div 2, newitem)
    ELSE [h EXCEPT ![pos + 1] = newitem]

\* heapq.heappush
heappush(h, item) == SiftDown(Append(h, item), 0, Len(h), item)

\* h.pop() for heappop(h): the last item of the list, not the smallest.
heappop_Last(h) == h[Len(h)]

\* heapq.heappop, for the item it returns: heap[0], or the only item.  (The heap
\* that is left, which _siftup repairs, is dropped by the caller.)
heappop(h) ==
    LET lastelt == h[Len(h)]
        rest == SubSeq(h, 1, Len(h) - 1)
    IN  IF rest # <<>> THEN rest[1] ELSE lastelt

\* The heap of PQueueBrancher.put: (inflight[i], i) pushed for i = 0 .. n_outs - 1.
RECURSIVE BuildHeap(_, _)
BuildHeap(inflight, n) ==
    IF n = 0 THEN <<>>
    ELSE heappush(BuildHeap(inflight, n - 1), <<inflight[n - 1], n - 1>>)

n_outs(outs) == Cardinality(DOMAIN outs)

\* PQueueBrancher.__init__: the counters are lists of n_outs zeros; the
\* output list is taken as it is, whatever its length.
PQueueBrancherInit(outputs) ==
    [requests_rec |-> 0,
     out_stats |-> [i \in 0..(n_outs(outputs) - 1) |-> 0],
     inflight |-> [i \in 0..(n_outs(outputs) - 1) |-> 0]]

\* RandomBrancher.__init__, which does not look at the list either.
RandomBrancherInit(outputs) ==
    [requests_rec |-> 0,
     out_stats |-> [i \in 0..(n_outs(outputs) - 1) |-> 0]]

\* PQueueBrancher.put
PQueuePut(s, b, r, rand) ==
    LET k == s.pq[b]
        outs == s.cfg.pq_outs[b]
        top == heappop(BuildHeap(k.inflight, n_outs(outs)))
        index == top[2]
        s1 == [s EXCEPT !.pq[b].requests_rec = @ + 1,
                        !.pq[b].inflight[index] = @ + 1,
                        !.reqs[r].completion_cbs = Append(@, <<b, index>>),
                        !.hist.routed = @ \cup {<<b, index, r>>},
                        !.hist.pq_last[b] = <<k.inflight, index>>]
        s2 == Put(s1, outs[index], r, rand)
    IN  [s2 EXCEPT !.pq[b].out_stats[index] = @ + 1]

\* A callback that takes its request off the counter twice.
Decrement_Twice(s, b, i) == [s EXCEPT !.pq[b].inflight[i] = @ - 2]

\* A callback that lost its index and decrements the first counter.
Decrement_First(s, b, i) == [s EXCEPT !.pq[b].inflight[0] = @ - 1]

\* PQueueBrancher.decrement, the completion callback the brancher appends.
Decrement(s, b, i) == [s EXCEPT !.pq[b].inflight[i] = @ - 1]

\* RandomBrancher.put; rand is what random.randint(0, n_outs - 1) returned.
RandomPut(s, b, r, rand) ==
    LET outs == s.cfg.rnd_outs[b]
        s1 == [s EXCEPT !.rnd[b].requests_rec = @ + 1]
        s2 == Put(s1, outs[rand], r, rand)
    IN  [s2 EXCEPT !.rnd[b].out_stats[rand] = @ + 1]

\* target.put(req): the call goes to whatever the out member names.
Put(s, target, r, rand) ==
    CASE target[1] = "sink" -> SinkPut(s, r)
      [] target[1] = "completer" -> CompleterPut(s, target[2], r)
      [] target[1] = "forwarder" -> ForwarderPut(s, r)
      [] target[1] = "pq" -> PQueuePut(s, target[2], r, rand)
      [] target[1] = "rand" -> RandomPut(s, target[2], r, rand)

\* target.put(req) raises instead of returning: a brancher without outputs
\* fails at random.randint(0, -1) (ValueError: empty range) or at heappop of
\* the empty heap (IndexError), after it has counted the request.
PutRaises(s, target) ==
    \/ target[1] = "rand" /\ n_outs(s.cfg.rnd_outs[target[2]]) = 0
    \/ target[1] = "pq" /\ n_outs(s.cfg.pq_outs[target[2]]) = 0

\* -------------------------------------------------------- RequestGenerator

\* Request.__init__ and the completion event the generator attaches.
NewRequest(time, size, id, src) ==
    [time |-> time, size |-> size, id |-> id, src |-> src,
     completed |-> None, completion_cbs |-> <<>>,
     completion_event |-> [triggered |-> FALSE, callbacks |-> <<>>]]

\* The loop test of RequestGenerator.run and the wait for the next
\* transmission; a is what adist() returns.  Past finish the process ends.
GeneratorLoop(s, g, a) ==
    IF s.now < s.gen[g].finish
    THEN Schedule([s EXCEPT !.gen[g].pc = "wait"],
                  Event("timeout_gen", g, 0, NoReq), NORMAL, a)
    ELSE [s EXCEPT !.gen[g].pc = "done"]

\* A generator that numbers the request before it counts it (ids from 0).
GeneratorSend_StaleId(s, g, size, rand) ==
    LET id == s.gen[g].requests_sent
        r == <<g, id>>
        s1 == [s EXCEPT !.gen[g].requests_sent = id + 1,
                        !.reqs = (r :> NewRequest(s.now, size, id, g)) @@ @,
                        !.hist.writes = (r :> 0) @@ @]
    IN  Put(s1, s.cfg.gen_out[g], r, rand)

\* The body of the loop after the wait: count, build the request, put it.
GeneratorSend(s, g, size, rand) ==
    LET id == s.gen[g].requests_sent + 1
        r == <<g, id>>
        s1 == [s EXCEPT !.gen[g].requests_sent = id,
                        !.reqs = (r :> NewRequest(s.now, size, id, g)) @@ @,
                        !.hist.writes = (r :> 0) @@ @]
    IN  Put(s1, s.cfg.gen_out[g], r, rand)

\* run() starts (the process's Initialize event): wait for initial_delay.
GeneratorStart ==
    /\ Ready("init_gen")
    /\ LET g == Head(queue).g
           s == Pop(Cur)
       IN  Commit(Schedule([s EXCEPT !.gen[g].pc = "delay"],
                           Event("timeout_gen", g, 0, NoReq), NORMAL,
                           s.gen[g].initial_delay))

\* The initial delay is over: enter the loop.
GeneratorDelayed ==
    /\ Ready("timeout_gen")
    /\ gen[Head(queue).g].pc = "delay"
    /\ \E a \in Intervals :
          Commit(GeneratorLoop(Pop(Cur), Head(queue).g, a))

\* What random.randint(0, n_outs - 1) may return in the RandomBrancher that
\* generator g feeds (0 stands for no draw where there is none).
RandChoices(g) ==
    IF cfg.gen_out[g][1] = "rand"
    THEN 0..(n_outs(cfg.rnd_outs[cfg.gen_out[g][2]]) - 1)
    ELSE {0}

\* An inter-arrival wait is over: send a request and go round the loop.
GeneratorEmit ==
    /\ Ready("timeout_gen")
    /\ gen[Head(queue).g].pc = "wait"
    /\ ~PutRaises(Cur, cfg.gen_out[Head(queue).g])
    /\ \E a \in Intervals, size \in Sizes, rand \in RandChoices(Head(queue).g) :
          LET g == Head(queue).g
          IN  Commit(GeneratorLoop(GeneratorSend(Pop(Cur), g, size, rand), g, a))

\* An inter-arrival wait is over and the generator's out is a brancher
\* without outputs: the request is counted and built, the brancher counts it,
\* and the exception of its put leaves run(), whose process fails.
GeneratorEmitRaises ==
    /\ Ready("timeout_gen")
    /\ gen[Head(queue).g].pc = "wait"
    /\ PutRaises(Cur, cfg.gen_out[Head(queue).g])
    /\ \E size \in Sizes :
          LET g == Head(queue).g
              s == Pop(Cur)
              id == s.gen[g].requests_sent + 1
              r == <<g, id>>
              b == s.cfg.gen_out[g][2]
              s1 == [s EXCEPT !.gen[g].requests_sent = id,
                              !.gen[g].pc = "failed",
                              !.reqs = (r :> NewRequest(s.now, size, id, g)) @@ @,
                              !.hist.writes = (r :> 0) @@ @]
              s2 == IF s.cfg.gen_out[g][1] = "rand"
                    THEN [s1 EXCEPT !.rnd[b].requests_rec = @ + 1]
                    ELSE [s1 EXCEPT !.pq[b].requests_rec = @ + 1]
          IN  Commit(ProcessFails(s2, g, 0, r))

\* ------------------------------------------------- RequestCompleter.run

\* A completion callback that raises when it is called.  completion_cbs is a
\* plain list of callables on the request; the branchers' callbacks are the
\* pairs <<b, i>> with b >= 1.
Raiser == <<0, 0>>

\* Code outside the components appends a callable that raises to the
\* callback list of a request that is still on its way.
RegisterRaiser ==
    \E r \in Created :
        /\ reqs[r].completed = None
        /\ \A i \in 1..Len(reqs[r].completion_cbs) : reqs[r].completion_cbs[i] # Raiser
        /\ \E front \in BOOLEAN :
              Commit([Cur EXCEPT !.reqs[r].completion_cbs =
                         IF front THEN <<Raiser>> \o @ ELSE Append(@, Raiser)])

\* Whether the loop over the callbacks meets one that raises.
CallbackRaises(cbs) == \E i \in 1..Len(cbs) : cbs[i] = Raiser

\* for c in req.completion_cbs: c() -- in list order; nothing catches what a
\* callback raises, so the loop ends at the first one that does.  Each call
\* is logged with the completion timestamp the request has at that moment.
RECURSIVE RunCallbacks(_, _, _)
RunCallbacks(s, r, cbs) ==
    IF cbs = <<>> THEN s
    ELSE LET cb == Head(cbs)
             called == [s EXCEPT !.hist.cb_log =
                           Append(@, [r |-> r, cb |-> cb, at |-> s.now,
                                      completed |-> s.reqs[r].completed])]
         IN  IF cb = Raiser THEN called
             ELSE RunCallbacks(Decrement(called, cb[1], cb[2]), r, Tail(cbs))

\* A completer that stamps the time the request took, not the clock.
SetCompleted_Duration(s, r) ==
    [s EXCEPT !.reqs[r].completed = Some(s.reqs[r].size), !.hist.writes[r] = @ + 1]

\* req.completed = self.env.now
SetCompleted(s, r) ==
    [s EXCEPT !.reqs[r].completed = Some(s.now), !.hist.writes[r] = @ + 1]

\* What run() does with a request once its processing delay is over.
CompleterDone(s, c, r) ==
    LET s1 == RunCallbacks(s, r, s.reqs[r].completion_cbs)
        s2 == SetCompleted(s1, r)
        s3 == Put([s2 EXCEPT !.hist.out_log[c] = Append(@, r)], CompleterOut(c), r, 0)
    IN  [s3 EXCEPT !.comp[c].busy = 0]

\* run() starts: wait for the first item of the store.
CompleterStart ==
    /\ Ready("init_comp")
    /\ Commit(StoreGet(Pop(Cur), Head(queue).c))

\* A put event of the store is processed: its callback triggers the get queue.
PutProcessed ==
    /\ Ready("put")
    /\ Commit(TriggerGet(Pop(Cur), Head(queue).c))

\* A completer that holds for the size alone, whatever its delay factor.
CompleterGet_NoFactor ==
    /\ Ready("get")
    /\ LET c == Head(queue).c
           r == Head(queue).r
           s == Pop(Cur)
       IN  Commit(Schedule([s EXCEPT !.comp[c].busy = 1,
                                     !.comp[c].req = r,
                                     !.comp[c].time_spent = @ + s.reqs[r].size],
                           Event("timeout_comp", "", c, r), NORMAL,
                           s.reqs[r].size))

\* The get event is processed: run() has its request and holds for the delay.
CompleterGet ==
    /\ Ready("get")
    /\ LET c == Head(queue).c
           r == Head(queue).r
           s == Pop(Cur)
       IN  Commit(Schedule([s EXCEPT !.comp[c].busy = 1,
                                     !.comp[c].req = r,
                                     !.comp[c].time_spent = @ + s.reqs[r].size],
                           Event("timeout_comp", "", c, r), NORMAL,
                           s.reqs[r].size * s.comp[c].extra_delay_factor))

\* The delay is over: complete the request and wait for the next one; or, if
\* a callback raises, run() ends there with the exception and its process
\* fails.
CompleterFinish ==
    /\ Ready("timeout_comp")
    /\ LET c == Head(queue).c
           r == comp[c].req
       IN  IF CallbackRaises(reqs[r].completion_cbs)
           THEN Commit(ProcessFails(RunCallbacks(Pop(Cur), r, reqs[r].completion_cbs),
                                    "", c, r))
           ELSE Commit(StoreGet(CompleterDone(Pop(Cur), c, r), c))

\* ------------------------------------- SynchronousForwarder.putAndWait

\* putAndWait starts: ask for a slot and wait for it.
ForwarderStart ==
    /\ Ready("init_fwd")
    /\ LET r == Head(queue).r
       IN  Commit(SlotsRequest([Pop(Cur) EXCEPT !.fproc[r] = "slot"], r))

ForwarderAcquired ==
    /\ Ready("slot")
    /\ Commit(ForwarderForward(Pop(Cur), Head(queue).r))

\* The rest of putAndWait, which runs when the completion event is processed:
\* release the slot and return.  Nothing in the program triggers a completion
\* event (no succeed() is called on it), so no entry of the timeline ever
\* resumes a process here and Next has no step for it.
ForwarderReleased(s, r) ==
    SlotsRelease([s EXCEPT !.fproc[r] = "done"], r)

\* ------------------------------------------------------------ the system

InitQueue(c) ==
    [i \in 1..Cardinality(c.gens) |->
        [Event("init_gen", IF i = 1 THEN "one" ELSE "two", 0, NoReq) EXCEPT !.prio = URGENT]]
    \o [i \in 1..c.n_completers |->
        [Event("init_comp", "", i - 1, NoReq) EXCEPT !.prio = URGENT]]

\* The state once a script has built the topology c, before env.run.
Constructed(topology) ==
    /\ cfg = topology
    /\ now = 0
    /\ queue = InitQueue(cfg)
    /\ gen = [g \in cfg.gens |->
                [pc |-> "start", requests_sent |-> 0,
                 initial_delay |-> InitialDelay, finish |-> cfg.finish]]
    /\ comp = [c \in 0..(cfg.n_completers - 1) |->
                [items |-> <<>>, getq |-> FALSE, busy |-> 0, req |-> NoReq,
                 requests_rec |-> 0, time_spent |-> 0, hiwat |-> 0,
                 extra_delay_factor |-> Factors(cfg.n_completers)[c]]]
    /\ fwd = [requests_rec |-> 0, users |-> <<>>, put_queue |-> <<>>]
    /\ fproc = [r \in {} |-> "start"]
    /\ pq = [b \in DOMAIN cfg.pq_outs |-> PQueueBrancherInit(cfg.pq_outs[b])]
    /\ rnd = [b \in DOMAIN cfg.rnd_outs |-> RandomBrancherInit(cfg.rnd_outs[b])]
    /\ sink = [waits |-> <<>>, arrivals |-> <<>>, last_arrival |-> 0,
               requests_rec |-> 0, bytes_rec |-> 0]
    /\ reqs = [r \in {} |-> NewRequest(0, 0, 0, "")]
    /\ hist = [sink_log |-> <<>>, fwd_log |-> <<>>,
               put_log |-> [c \in 0..(cfg.n_completers - 1) |-> <<>>],
               out_log |-> [c \in 0..(cfg.n_completers - 1) |-> <<>>],
               routed |-> {},
               pq_last |-> [b \in DOMAIN cfg.pq_outs |-> <<>>],
               writes |-> [r \in {} |-> 0],
               put_at |-> [r \in {} |-> 0],
               max_depth |-> [c \in 0..(cfg.n_completers - 1) |-> 0],
               cb_log |-> <<>>]

Init == \E t \in Topologies : Constructed(t)

Next ==
    \/ GeneratorStart
    \/ GeneratorDelayed
    \/ GeneratorEmit
    \/ CompleterStart
    \/ PutProcessed
    \/ CompleterGet
    \/ CompleterFinish
    \/ ForwarderStart
    \/ ForwarderAcquired

Spec == Init /\ [][Next]_vars

\* The same components where the inputs are not the scripts' own: a brancher
\* built over an empty output list, and requests that are given a completion
\* callback that raises.
InitFaulty == \E t \in Topologies \cup EmptyTopologies : Constructed(t)

NextFaulty ==
    \/ Next
    \/ GeneratorEmitRaises
    \/ RegisterRaiser

SpecFaulty == InitFaulty /\ [][NextFaulty]_vars

\* ================================================================= claims

IsPrefix(a, b) == Len(a) <= Len(b) /\ SubSeq(b, 1, Len(a)) = a

\* The requests the forwarder has forwarded downstream (in order).
Forwarded == {hist.fwd_log[i] : i \in 1..Len(hist.fwd_log)}
EventFired(r) == reqs[r].completion_event.triggered
Completed(r) == reqs[r].completed # None

\* C1: the forwarder never has more than N requests forwarded downstream and
\* not yet completed, whether completion is the completion event having fired
\* or the completion timestamp being set; so with N = 1 a request is forwarded
\* only when the completion event of every request forwarded before it has fired.
C1_AtMostNInFlight ==
    /\ Cardinality({r \in Forwarded : ~EventFired(r)}) <= cfg.N
    /\ Cardinality({r \in Forwarded : ~Completed(r)}) <= cfg.N
    /\ Len(fwd.users) <= cfg.N
    /\ cfg.N = 1 =>
          \A i \in 1..(Len(hist.fwd_log) - 1) : EventFired(hist.fwd_log[i])

\* C1 witness: two_layer with N = 1: the one slot is taken by a request that
\* was forwarded, and a second request waits for it without being forwarded.
C1_Witness ==
    /\ cfg.name = "two_layer" /\ cfg.N = 1
    /\ Len(hist.fwd_log) = 1
    /\ fwd.users = hist.fwd_log
    /\ fwd.put_queue # <<>>
    /\ \A i \in 1..Len(fwd.put_queue) : fwd.put_queue[i] \notin Forwarded

\* The run is over because the timeline is empty: nothing is left to happen.
RanOut == queue = <<>>

\* C2 (as claimed): once the completer has finished a forwarded request its
\* slot is released, and every request put into the forwarder gets forwarded:
\* at the end of a run that ran out of events no completed request still
\* holds a slot and no request is still waiting for one.
C2_SlotReleased ==
    RanOut =>
       /\ \A i \in 1..Len(fwd.users) : ~Completed(fwd.users[i])
       /\ \A r \in DOMAIN fproc : r \in Forwarded

\* C3 (as claimed): every request a completer has put to its downstream
\* target has a completion event that has fired.
C3_EventFiredBeforeForward ==
    \A c \in DOMAIN comp : \A i \in 1..Len(hist.out_log[c]) :
        EventFired(hist.out_log[c][i])

\* C4: a completer puts requests downstream in exactly the order they were
\* put into it, and their completion timestamps never decrease in that order.
C4_FifoCompletion ==
    \A c \in DOMAIN comp :
        /\ IsPrefix(hist.out_log[c], hist.put_log[c])
        /\ \A i \in 1..Len(hist.out_log[c]) : Completed(hist.out_log[c][i])
        /\ \A i \in 1..(Len(hist.out_log[c]) - 1) :
              reqs[hist.out_log[c][i]].completed[1] <= reqs[hist.out_log[c][i + 1]].completed[1]

\* C4 witness: a completer that was put a request while another one was still
\* in its store has completed both, and all it was given.
C4_Witness ==
    \E c \in DOMAIN comp :
        /\ Len(hist.out_log[c]) >= 2
        /\ hist.out_log[c] = hist.put_log[c]
        /\ comp[c].hiwat >= 1

\* C5: the completion timestamp of a request is written at most once, is set
\* exactly when it has been written, and is never before the arrival time.
C5_CompletedOnceAfterArrival ==
    \A r \in Created :
        /\ hist.writes[r] <= 1
        /\ Completed(r) <=> hist.writes[r] = 1
        /\ Completed(r) => reqs[r].completed[1] >= reqs[r].time

\* C5 witness: a request that waited behind another one has been completed.
C5_Witness ==
    \E r \in Created :
        /\ Completed(r)
        /\ hist.writes[r] = 1
        /\ reqs[r].completed[1] > reqs[r].time + reqs[r].size

\* The sum of f[0] .. f[n - 1].
RECURSIVE SumTo(_, _)
SumTo(f, n) == IF n = 0 THEN 0 ELSE f[n - 1] + SumTo(f, n - 1)

\* What brancher b has routed: (b, output, request), recorded at routing time.
RoutedBy(b) == {t \in hist.routed : t[1] = b}

\* C6: every inflight counter of a PQueueBrancher is the number of requests it
\* routed to that output that have not completed; the counters sum to routed
\* minus completed; when every routed request has completed all are 0.
C6_InflightAccounting ==
    \A b \in DOMAIN pq :
        /\ pq[b].requests_rec = Cardinality(RoutedBy(b))
        /\ \A i \in DOMAIN pq[b].inflight :
              pq[b].inflight[i] =
                 Cardinality({t \in RoutedBy(b) : t[2] = i /\ ~Completed(t[3])})
        /\ SumTo(pq[b].inflight, Cardinality(DOMAIN pq[b].inflight)) =
              pq[b].requests_rec - Cardinality({t \in RoutedBy(b) : Completed(t[3])})
        /\ (\A t \in RoutedBy(b) : Completed(t[3])) =>
              \A i \in DOMAIN pq[b].inflight : pq[b].inflight[i] = 0

\* C6 witness: a brancher has routed requests to two different outputs, one
\* has completed and one has not.
C6_Witness ==
    \E b \in DOMAIN pq : \E t, u \in RoutedBy(b) :
        /\ t[2] # u[2]
        /\ Completed(t[3]) /\ ~Completed(u[3])
        /\ pq[b].inflight[t[2]] = 0 /\ pq[b].inflight[u[2]] = 1

\* C7: the output PQueueBrancher.put chose had, when it chose, a counter no
\* greater than any other output's, and the lowest index among those equal.
C7_RoutesToLeastLoaded ==
    \A b \in DOMAIN pq :
        hist.pq_last[b] # <<>> =>
           LET before == hist.pq_last[b][1]
               index == hist.pq_last[b][2]
           IN  \A j \in DOMAIN before :
                  /\ before[index] <= before[j]
                  /\ before[j] = before[index] => index <= j

\* C7 witness: a request was routed past a loaded first output to a later one.
C7_Witness ==
    \E b \in DOMAIN pq :
        /\ hist.pq_last[b] # <<>>
        /\ hist.pq_last[b][2] # 0
        /\ hist.pq_last[b][1][0] > hist.pq_last[b][1][hist.pq_last[b][2]]

\* C8 (as claimed): every request a generator has emitted has an arrival time
\* strictly before the generator's finish.
C8_NoEmitPastFinish ==
    \A r \in Created : reqs[r].time < gen[reqs[r].src].finish

\* All N slots of the forwarder are in use.
Saturated == Len(fwd.users) = cfg.N
FeedsForwarder(g) == cfg.gen_out[g] = Forwarder

\* C9 (as claimed): a generator that feeds a saturated forwarder emits nothing.
C9_ProducerBlocked ==
    [][\A g \in DOMAIN gen :
          (Saturated /\ FeedsForwarder(g)) =>
              gen'[g].requests_sent = gen[g].requests_sent]_vars

\* C9 (amended): put on a saturated forwarder does not block the producer: the
\* forwarder counts the request and the generator goes on with its loop (its
\* next wait is scheduled, or it is past finish), within the same step.  It is
\* the request that waits: it is in the slot queue, which is non-empty only
\* while all slots are in use, and it is not forwarded downstream.
C9_RequestWaitsNotProducer ==
    /\ [](/\ fwd.put_queue # <<>> => Saturated
          /\ \A i \in 1..Len(fwd.put_queue) :
                /\ fwd.put_queue[i] \notin Forwarded
                /\ fproc[fwd.put_queue[i]] = "slot"
          /\ fwd.requests_rec = Cardinality(DOMAIN fproc))
    /\ [][\A g \in DOMAIN gen :
            (Saturated /\ FeedsForwarder(g)
               /\ gen'[g].requests_sent # gen[g].requests_sent) =>
                /\ fwd'.requests_rec = fwd.requests_rec + 1
                /\ hist'.fwd_log = hist.fwd_log
                /\ fwd'.users = fwd.users
                /\ \/ gen'[g].pc = "done"
                   \/ /\ gen'[g].pc = "wait"
                      /\ \E i \in 1..Len(queue') :
                            queue'[i].kind = "timeout_gen" /\ queue'[i].g = g]_vars

\* C9 witness: all slots are in use, two more requests that the generator has
\* emitted since wait in the slot queue, and the generator is still running.
C9_Witness ==
    /\ cfg.name = "two_layer"
    /\ Saturated
    /\ Len(fwd.put_queue) >= 2
    /\ gen["one"].requests_sent = cfg.N + Len(fwd.put_queue)
    /\ gen["one"].pc = "wait"

\* The puts to the sink that its selector accepts (places in the log).
Accepted == {i \in 1..Len(hist.sink_log) :
                cfg.selector = "" \/ reqs[hist.sink_log[i].r].src = cfg.selector}
RECURSIVE AcceptedBytes(_)
AcceptedBytes(n) ==
    IF n = 0 THEN 0
    ELSE AcceptedBytes(n - 1) + (IF n \in Accepted THEN reqs[hist.sink_log[n].r].size ELSE 0)
LastAccepted == CHOOSE i \in Accepted : \A j \in Accepted : j <= i

\* C10: the sink's counters and lists account for exactly the puts its
\* selector accepted: the received count is their number, the received bytes
\* the sum of their sizes, one wait and one arrival recorded for each (when
\* recording is on), the last arrival the time of the last of them.
C10_SinkCountsSelected ==
    /\ sink.requests_rec = Cardinality(Accepted)
    /\ sink.bytes_rec = AcceptedBytes(Len(hist.sink_log))
    /\ Len(sink.waits) = IF cfg.rec_waits THEN Cardinality(Accepted) ELSE 0
    /\ Len(sink.arrivals) = IF cfg.rec_arrivals THEN Cardinality(Accepted) ELSE 0
    /\ sink.last_arrival =
          IF cfg.rec_arrivals /\ Accepted # {} THEN hist.sink_log[LastAccepted].at ELSE 0

\* C10 witness: a sink with a selector was put a request it rejects after one
\* it accepted, and then another one it accepts.
C10_Witness ==
    /\ cfg.selector # ""
    /\ \E i, j, k \in 1..Len(hist.sink_log) :
          /\ i < j /\ j < k
          /\ i \in Accepted /\ j \notin Accepted /\ k \in Accepted

\* C11: every completer's high-water mark is the greatest depth its queue
\* ever reached, the depth at a put counting the request being enqueued.
C11_HiwatIsMaxDepth ==
    \A c \in DOMAIN comp : comp[c].hiwat = hist.max_depth[c]

\* C12: in every reachable state inflight() of a completer returns a value
\* (it does not fail), and the value is the number of requests waiting in its
\* store plus one if it is serving a request.
C12_InflightReturnsLoad ==
    \A c \in DOMAIN comp :
        /\ CompleterInflight(Cur, c).raised = ""
        /\ CompleterInflight(Cur, c).value = Len(comp[c].items) + comp[c].busy

\* The requests one of whose callbacks raised when the completer called it.
Raised == {hist.cb_log[i].r : i \in {j \in 1..Len(hist.cb_log) : hist.cb_log[j].cb = Raiser}}
\* The callbacks of request r that have been called, in the order of the calls.
Called(r) ==
    LET mine == SelectSeq(hist.cb_log, LAMBDA e : e.r = r)
    IN  [i \in 1..Len(mine) |-> mine[i].cb]
InService(c) == \E i \in 1..Len(queue) : queue[i].kind = "timeout_comp" /\ queue[i].c = c

\* C13: a completion callback that raises is contained: the other callbacks
\* of the request are still called, the request is still completed and
\* forwarded downstream, and the completer goes on (it is never left holding a
\* request whose processing delay is over).
C13_CallbackErrorContained ==
    /\ \A r \in Raised :
          /\ Called(r) = reqs[r].completion_cbs
          /\ Completed(r)
          /\ \E c \in DOMAIN comp : \E i \in 1..Len(hist.out_log[c]) : hist.out_log[c][i] = r
    /\ \A c \in DOMAIN comp : comp[c].busy = 1 => InService(c)

\* C14: a RandomBrancher or a PQueueBrancher is never built over an empty
\* output list (the constructor rejects it), so none without outputs exists
\* to be put a request.
C14_NoEmptyBrancher ==
    /\ \A b \in DOMAIN pq : n_outs(cfg.pq_outs[b]) >= 1
    /\ \A b \in DOMAIN rnd : n_outs(cfg.rnd_outs[b]) >= 1

\* The callbacks called so far for each request are the first ones of its
\* list, in the list's order.
CalledInOrder == \A r \in Created : IsPrefix(Called(r), reqs[r].completion_cbs)

\* C15: whenever the completer calls a completion callback of a request, the
\* request's completion timestamp is already set, to the time of the call; and
\* the callbacks of a request are called in the order they were registered.
C15_StampedBeforeCallbacks ==
    /\ \A i \in 1..Len(hist.cb_log) : hist.cb_log[i].completed = Some(hist.cb_log[i].at)
    /\ CalledInOrder

Later(a, b) == IF a < b THEN b ELSE a
\* When the i-th request completer c forwards was dequeued, as C17 has it: the
\* time it was put, or the completion time of the one before it if that is later.
DequeueTime(c, i) ==
    LET log == hist.out_log[c]
    IN  IF i = 1 THEN hist.put_at[log[1]]
        ELSE Later(hist.put_at[log[i]], reqs[log[i - 1]].completed[1])
\* The entries of the timeline that end a processing delay of completer c.
Delays(c) == {i \in 1..Len(queue) : queue[i].kind = "timeout_comp" /\ queue[i].c = c}

\* C17: a completer serves one request at a time (at most one processing
\* delay is running, and only while it is busy), and every request it has
\* forwarded was completed at its dequeue time plus size times the completer's
\* extra delay factor, the dequeue time being the later of the time it was put
\* and the completion time of the request served before it.
C17_SingleServerTiming ==
    \A c \in DOMAIN comp :
        /\ comp[c].busy \in {0, 1}
        /\ Cardinality(Delays(c)) = comp[c].busy
        /\ \A i \in 1..Len(hist.out_log[c]) :
              LET r == hist.out_log[c][i]
              IN  reqs[r].completed =
                      Some(DequeueTime(c, i) + reqs[r].size * comp[c].extra_delay_factor)

\* C17 witness: a completer has completed a request that was put while the
\* one before it was still being served, and so had to wait for it.
C17_Witness ==
    \E c \in DOMAIN comp : \E i \in 2..Len(hist.out_log[c]) :
        /\ hist.put_at[hist.out_log[c][i]] < reqs[hist.out_log[c][i - 1]].completed[1]
        /\ Completed(hist.out_log[c][i])

\* The ids of the requests generator g has emitted.
Ids(g) == {r[2] : r \in {q \in Created : q[1] = g}}

\* C18: the requests of one generator carry the ids 1, 2, 3, ... without gap
\* or repeat, requests_sent being the id of the last one; each carries its
\* source and the time of its emission (the clock of the step that emits it);
\* the times do not decrease with the id; and none is earlier than the
\* generator's initial delay.
C18_SequenceIds ==
    /\ [](\A g \in DOMAIN gen :
            /\ Ids(g) = 1..gen[g].requests_sent
            /\ \A i \in Ids(g) :
                  /\ reqs[<<g, i>>].id = i
                  /\ reqs[<<g, i>>].src = g
                  /\ reqs[<<g, i>>].time >= gen[g].initial_delay
                  /\ i > 1 => reqs[<<g, i - 1>>].time <= reqs[<<g, i>>].time)
    /\ [][\A g \in DOMAIN gen :
            gen'[g].requests_sent # gen[g].requests_sent =>
                /\ gen'[g].requests_sent = gen[g].requests_sent + 1
                /\ <<g, gen'[g].requests_sent>> \notin Created
                /\ reqs'[<<g, gen'[g].requests_sent>>].time = now']_vars

\* C18 witness: two generators have each emitted two requests, the second
\* later than the first.
C18_Witness ==
    \A g \in Gens :
        /\ g \in DOMAIN gen
        /\ gen[g].requests_sent >= 2
        /\ reqs[<<g, 1>>].time < reqs[<<g, 2>>].time

\* The requests brancher b has dispatched to its output i.
Dispatched(b, i) == {x \in hist.routed : x[1] = b /\ x[2] = i}
\* How many times the completers have called the callback <<b, i>> of request r.
Calls(r, b, i) ==
    Cardinality({j \in 1..Len(hist.cb_log) :
                    hist.cb_log[j].r = r /\ hist.cb_log[j].cb = <<b, i>>})

\* C19: every in-flight counter of a PQueueBrancher stays within
\* 0 .. out_stats[i], out_stats[i] being the number of requests dispatched to
\* output i; and no request's completion takes it off its counter twice.
C19_InflightWithinDispatched ==
    \A b \in DOMAIN pq :
        \A i \in DOMAIN pq[b].inflight :
            /\ 0 <= pq[b].inflight[i]
            /\ pq[b].inflight[i] <= pq[b].out_stats[i]
            /\ pq[b].out_stats[i] = Cardinality(Dispatched(b, i))
            /\ \A x \in Dispatched(b, i) : Calls(x[3], b, i) <= 1

\* C19 witness: one counter of a brancher is back at 0 after a completion
\* while another one still counts every request dispatched to its output.
C19_Witness ==
    \E b \in DOMAIN pq :
        \E i, j \in DOMAIN pq[b].inflight :
            /\ pq[b].out_stats[i] >= 1 /\ pq[b].inflight[i] = 0
            /\ pq[b].out_stats[j] >= 1 /\ pq[b].inflight[j] = pq[b].out_stats[j]

\* The get events of completer c on the timeline: a request taken out of the
\* store for run(), which has not resumed with it yet (busy is still 0).
Handover(c) == {i \in 1..Len(queue) : queue[i].kind = "get" /\ queue[i].c = c}
\* How many times request r was forwarded downstream by completer c.
Forwards(c, r) ==
    Cardinality({i \in 1..Len(hist.out_log[c]) : hist.out_log[c][i] = r})

\* C20 as claimed: in every state a completer's requests_rec is the number of
\* requests it has forwarded downstream, plus the number waiting in its store,
\* plus one if it is serving a request (busy); and it forwards no request twice.
C20_BusyAccounting ==
    \A c \in DOMAIN comp :
        /\ comp[c].requests_rec =
              Len(hist.out_log[c]) + Len(comp[c].items) + comp[c].busy
        /\ \A r \in Created : Forwards(c, r) <= 1

\* C20, amended: in every state a completer's requests_rec is the number of
\* requests it has forwarded downstream, plus the number waiting in its store,
\* plus one if a request is out of the store and not forwarded yet -- in
\* service (busy), or handed over by a get event that run() has not resumed on;
\* never both; and it forwards no request twice, nor one it was not put.
C20_Conservation ==
    \A c \in DOMAIN comp :
        /\ comp[c].requests_rec =
              Len(hist.out_log[c]) + Len(comp[c].items) + comp[c].busy
                  + Cardinality(Handover(c))
        /\ comp[c].busy + Cardinality(Handover(c)) <= 1
        /\ comp[c].requests_rec = Len(hist.put_log[c])
        /\ \A r \in Created :
              /\ Forwards(c, r) <= 1
              /\ Forwards(c, r) = 1 =>
                    \E i \in 1..Len(hist.put_log[c]) : hist.put_log[c][i] = r

\* C20 witness: a completer that has forwarded a request has taken the next
\* one out of its store, and run() has not resumed on it yet.
C20_Witness ==
    \E c \in DOMAIN comp :
        /\ Handover(c) # {}
        /\ comp[c].busy = 0
        /\ Len(hist.out_log[c]) >= 1

====
